---- MODULE Spec2Model ----
(***************************************************************************)
(* Model of the disk-usage service of ncdu-web                             *)
(* (server/src/services/disk.ts and its callers): the in-memory cache      *)
(* diskCache, its file mirror disk-cache.json, the volume enumeration      *)
(* getMounts, the scanner analyzePath / calculateDirectorySize and         *)
(* deletePath.                                                             *)
(*                                                                         *)
(* Sizes are counted in MiB, so the scanner's two byte literals become     *)
(* LargeFileThreshold (10 MiB) and SystemDirEstimate (1024 MiB).           *)
(* A path is the sequence of its components, <<"C:", "data", "sub">>;      *)
(* where the code inspects the characters of a path or of a name the       *)
(* model spells them out (Chars, PathChars).                               *)
(***************************************************************************)
EXTENDS Integers, Sequences, FiniteSets, TLC

(***************************************************************************)
(* Bounds of the model.                                                    *)
(***************************************************************************)
\* requests accepted in one behaviour of Spec
MaxOps == 2
\* requests accepted in one behaviour of SpecVolumes
MaxListOps == 2
\* requests accepted in one behaviour of SpecScan
MaxScanOps == 2
\* requests in flight at the same time
MaxCalls == 2
\* lines after the header in an output handed to parseDrivesOutput
MaxRows == 2

(***************************************************************************)
(* Program constants.                                                      *)
(***************************************************************************)
\* stats.size > 1024 * 1024 * 10, in MiB
LargeFileThreshold == 10
\* totalSize += 1024 * 1024 * 1024, in MiB
SystemDirEstimate == 1024
\* calculateDirectorySize(itemPath, 2) for a top-level directory of a drive
RootDepth == 2
\* calculateDirectorySize(fbPath, 1) and calculateDirectorySize(itemPath, 1)
ShallowDepth == 1
\* total: 250000000000 of the hard-coded fallback drive, in units of 10^9
FallbackTotal == 250
\* used: 150000000000
FallbackUsed == 150
\* available: 100000000000
FallbackAvailable == 100

(***************************************************************************)
(* Strings.  A name is a TLA+ string; Chars spells it.                     *)
(***************************************************************************)
Chars(s) ==
  CASE s = "C:" -> <<"C", ":">>
    [] s = "Users" -> <<"U", "s", "e", "r", "s">>
    [] s = "Documents and Settings" -> <<"D", "o", "c", "u", "m", "e", "n", "t", "s", " ", "a", "n", "d", " ", "S", "e", "t", "t", "i", "n", "g", "s">>
    [] s = "Program Files" -> <<"P", "r", "o", "g", "r", "a", "m", " ", "F", "i", "l", "e", "s">>
    [] s = "Program Files (x86)" -> <<"P", "r", "o", "g", "r", "a", "m", " ", "F", "i", "l", "e", "s", " ", "(", "x", "8", "6", ")">>
    [] s = "$Recycle.Bin" -> <<"$", "R", "e", "c", "y", "c", "l", "e", ".", "B", "i", "n">>
    [] s = "System Volume Information" -> <<"S", "y", "s", "t", "e", "m", " ", "V", "o", "l", "u", "m", "e", " ", "I", "n", "f", "o", "r", "m", "a", "t", "i", "o", "n">>
    [] s = "pagefile.sys" -> <<"p", "a", "g", "e", "f", "i", "l", "e", ".", "s", "y", "s">>
    [] s = "hiberfil.sys" -> <<"h", "i", "b", "e", "r", "f", "i", "l", ".", "s", "y", "s">>
    [] s = "swapfile.sys" -> <<"s", "w", "a", "p", "f", "i", "l", "e", ".", "s", "y", "s">>
    [] s = "DumpStack.log.tmp" -> <<"D", "u", "m", "p", "S", "t", "a", "c", "k", ".", "l", "o", "g", ".", "t", "m", "p">>
    [] s = "Windows" -> <<"W", "i", "n", "d", "o", "w", "s">>
    [] s = "ProgramData" -> <<"P", "r", "o", "g", "r", "a", "m", "D", "a", "t", "a">>
    [] s = "data" -> <<"d", "a", "t", "a">>
    [] s = "sub" -> <<"s", "u", "b">>
    [] s = "deep" -> <<"d", "e", "e", "p">>
    [] s = "deeper" -> <<"d", "e", "e", "p", "e", "r">>
    [] s = "locked" -> <<"l", "o", "c", "k", "e", "d">>
    [] s = "sealed" -> <<"s", "e", "a", "l", "e", "d">>
    [] s = "loop" -> <<"l", "o", "o", "p">>
    [] s = "a.txt" -> <<"a", ".", "t", "x", "t">>
    [] s = "b.txt" -> <<"b", ".", "t", "x", "t">>
    [] s = "c.txt" -> <<"c", ".", "t", "x", "t">>
    [] s = "big.iso" -> <<"b", "i", "g", ".", "i", "s", "o">>

\* String.prototype.includes
Includes(s, t) ==
  \E i \in 0..(Len(s) - Len(t)) : SubSeq(s, i + 1, i + Len(t)) = t

\* String.prototype.startsWith
StartsWith(s, t) == Len(s) >= Len(t) /\ SubSeq(s, 1, Len(t)) = t

\* String.prototype.endsWith
EndsWith(s, t) ==
  Len(s) >= Len(t) /\ SubSeq(s, Len(s) - Len(t) + 1, Len(s)) = t

\* path.join(dir, item) on the characters of dir
PathJoin(dir, item) ==
  IF EndsWith(dir, <<"\\">>) THEN dir \o Chars(item)
  ELSE dir \o <<"\\">> \o Chars(item)

\* the characters of the path string whose components are p
RECURSIVE PathChars(_)
PathChars(p) ==
  IF Len(p) = 1 THEN Chars(p[1])
  ELSE PathJoin(PathChars(SubSeq(p, 1, Len(p) - 1)), p[Len(p)])

\* the path string whose components are p
RECURSIVE PathString(_)
PathString(p) ==
  IF Len(p) = 1 THEN p[1]
  ELSE PathString(SubSeq(p, 1, Len(p) - 1)) \o "\\" \o p[Len(p)]

(***************************************************************************)
(* The filesystem: a tree of entries.  size is what stat reports, statOk   *)
(* whether stat succeeds, listOk whether readdir succeeds; children is in  *)
(* readdir's order.                                                        *)
(***************************************************************************)
Missing ==
  [name |-> "", kind |-> "none", size |-> 0, statOk |-> FALSE,
   listOk |-> FALSE, children |-> <<>>]

File(name, size) ==
  [name |-> name, kind |-> "file", size |-> size, statOk |-> TRUE,
   listOk |-> FALSE, children |-> <<>>]

Dir(name, children) ==
  [name |-> name, kind |-> "dir", size |-> 0, statOk |-> TRUE,
   listOk |-> TRUE, children |-> children]

\* a directory that exists and whose stat and readdir are refused
Locked(name) ==
  [name |-> name, kind |-> "dir", size |-> 0, statOk |-> FALSE,
   listOk |-> FALSE, children |-> <<>>]

Child(node, name) ==
  IF \E i \in 1..Len(node.children) : node.children[i].name = name
  THEN node.children[CHOOSE i \in 1..Len(node.children) :
                       node.children[i].name = name]
  ELSE Missing

\* the entry at path p of the tree whose root is the volume node
RECURSIVE Resolve(_, _)
Resolve(volume, p) ==
  IF Len(p) = 0 \/ p[1] # volume.name THEN Missing
  ELSE IF Len(p) = 1 THEN volume
  ELSE LET sub == Child(volume, p[2])
       IN IF sub.kind = "none" THEN Missing
          ELSE Resolve(sub, SubSeq(p, 2, Len(p)))

\* fs.stat succeeds
StatOk(node) == node.kind # "none" /\ node.statOk

\* fs.readdir succeeds
ReaddirOk(node) == node.kind = "dir" /\ node.listOk

(***************************************************************************)
(* Array helpers.                                                          *)
(***************************************************************************)
\* nodes.reduce((acc, child) => acc + child.size, 0)
RECURSIVE SumSizes(_)
SumSizes(nodes) ==
  IF nodes = <<>> THEN 0
  ELSE SumSizes(SubSeq(nodes, 1, Len(nodes) - 1)) + nodes[Len(nodes)].size

\* x placed behind every element of the descending sequence s that is not
\* smaller than it
RECURSIVE InsertDesc(_, _)
InsertDesc(s, x) ==
  IF s = <<>> THEN <<x>>
  ELSE IF s[Len(s)].size >= x.size THEN Append(s, x)
  ELSE Append(InsertDesc(SubSeq(s, 1, Len(s) - 1), x), s[Len(s)])

\* nodes.sort((a, b) => b.size - a.size): descending and stable
RECURSIVE SortDesc(_)
SortDesc(nodes) ==
  IF nodes = <<>> THEN <<>>
  ELSE InsertDesc(SortDesc(SubSeq(nodes, 1, Len(nodes) - 1)), nodes[Len(nodes)])

FileNode(name, size, type) == [name |-> name, size |-> size, type |-> type]

(***************************************************************************)
(* calculateDirectorySize(dirPath, maxDepth), on the entry at dirPath.     *)
(***************************************************************************)
\* items skipped by name inside calculateDirectorySize
SizeSkipped(item) ==
  \/ StartsWith(Chars(item), <<"$">>)
  \/ item \in {"hiberfil.sys", "pagefile.sys", "swapfile.sys", "DumpStack.log.tmp"}

\* directories that are estimated instead of scanned
EstimatedDir(item) ==
  item \in {"Windows", "Program Files", "Program Files (x86)", "ProgramData"}

RECURSIVE calculateDirectorySize(_, _)
RECURSIVE SizeOfItems(_, _)

\* what one item of the listing adds to totalSize
SizeOfItem(e, maxDepth) ==
  IF SizeSkipped(e.name) \/ ~StatOk(e) THEN 0
  ELSE IF e.kind = "file" THEN e.size
  ELSE IF e.kind = "dir" /\ maxDepth > 0
       THEN IF EstimatedDir(e.name) THEN SystemDirEstimate
            ELSE calculateDirectorySize(e, maxDepth - 1)
  ELSE 0

\* the loop over the listing
SizeOfItems(items, maxDepth) ==
  IF items = <<>> THEN 0
  ELSE SizeOfItems(SubSeq(items, 1, Len(items) - 1), maxDepth)
       + SizeOfItem(items[Len(items)], maxDepth)

calculateDirectorySize(node, maxDepth) ==
  IF maxDepth < 0 THEN 0
  ELSE IF ~ReaddirOk(node) THEN (IF StatOk(node) THEN node.size ELSE 0)
  ELSE SizeOfItems(node.children, maxDepth)

(***************************************************************************)
(* analyzePath on a drive root (targetPath ends with ':').                 *)
(***************************************************************************)
\* the root items the loop passes over ("locked system files")
RootSkipped(rootPath, item) ==
  LET itemPath == PathJoin(rootPath, item)
  IN \/ Includes(itemPath, Chars("$Recycle.Bin"))
     \/ Includes(itemPath, Chars("System Volume Information"))
     \/ item \in {"pagefile.sys", "hiberfil.sys", "swapfile.sys",
                  "DumpStack.log.tmp"}

\* a loop over the root items that measures one level deeper
RootItemNodes_OneLevelDeeper(rootPath, e) ==
  IF RootSkipped(rootPath, e.name) \/ ~StatOk(e) THEN <<>>
  ELSE IF e.kind = "dir"
       THEN <<FileNode(e.name, calculateDirectorySize(e, RootDepth + 1), "directory")>>
  ELSE IF e.kind = "file" /\ e.size > LargeFileThreshold
       THEN <<FileNode(e.name, e.size, "file")>>
  ELSE <<>>

\* the nodes one root item pushes to children
RootItemNodes(rootPath, e) ==
  IF RootSkipped(rootPath, e.name) \/ ~StatOk(e) THEN <<>>
  ELSE IF e.kind = "dir"
       THEN <<FileNode(e.name, calculateDirectorySize(e, RootDepth), "directory")>>
  ELSE IF e.kind = "file" /\ e.size > LargeFileThreshold
       THEN <<FileNode(e.name, e.size, "file")>>
  ELSE <<>>

\* children after the loop over rootItems
RECURSIVE RootChildren(_, _)
RootChildren(rootPath, items) ==
  IF items = <<>> THEN <<>>
  ELSE RootChildren(rootPath, SubSeq(items, 1, Len(items) - 1))
       \o RootItemNodes(rootPath, items[Len(items)])

\* children.filter(item => item.size > 0).sort(...)
NonZeroSorted(children) ==
  SortDesc(SelectSeq(children, LAMBDA n : n.size > 0))

fallbackPaths ==
  <<"Users", "Documents and Settings", "Program Files", "Program Files (x86)">>

\* the node one fallback path pushes to sortedChildren
FallbackNodes(root, name) ==
  LET e == Child(root, name)
      dirSize == calculateDirectorySize(e, ShallowDepth)
  IN IF StatOk(e) /\ dirSize > 0
     THEN <<FileNode(name, dirSize, "directory")>>
     ELSE <<>>

\* the loop over fallbackPaths
RECURSIVE FallbackChildren(_, _)
FallbackChildren(root, names) ==
  IF names = <<>> THEN <<>>
  ELSE FallbackChildren(root, SubSeq(names, 1, Len(names) - 1))
       \o FallbackNodes(root, names[Len(names)])

\* sortedChildren once the fallback paths were tried
WithFallback(root, sorted) ==
  IF sorted = <<>> THEN FallbackChildren(root, fallbackPaths) ELSE sorted

\* sortedChildren once the placeholder was added
WithPlaceholder(sorted) ==
  IF sorted = <<>>
  THEN <<FileNode("No accessible directories found", 0, "directory")>>
  ELSE sorted

\* sortedChildren of a drive whose root directory was listed
RootSortedChildren(root, rootPath) ==
  WithPlaceholder(
    WithFallback(root, NonZeroSorted(RootChildren(rootPath, root.children))))

\* what is saved under diskCache.largeDirectories[targetPath]
LargeDirectoriesOf(targetPath, sorted) ==
  LET dirs == SelectSeq(sorted, LAMBDA n : n.type = "directory")
  IN [i \in 1..Len(dirs) |->
        [path |-> Append(targetPath, dirs[i].name),
         size |-> dirs[i].size,
         name |-> dirs[i].name]]

\* the size of the node returned for a scanned drive
\* a total that counts the directories alone
RootResultSize_DirectoriesOnly(sorted) ==
  SumSizes(SelectSeq(sorted, LAMBDA n : n.type = "directory"))

RootResultSize(sorted) == SumSizes(sorted)

\* path.basename(rootPath) || rootPath, rootPath being targetPath + "\\"
RootName(targetPath) == PathString(targetPath) \o "\\"

\* the node returned for a scanned drive
RootResult(targetPath, sorted) ==
  [name |-> RootName(targetPath), size |-> RootResultSize(sorted),
   type |-> "directory", children |-> sorted]

\* the node returned when the root directory cannot be listed
RootError(targetPath) ==
  [name |-> RootName(targetPath), size |-> 0, type |-> "directory",
   children |-> <<FileNode("Error analyzing drive", 0, "directory")>>]

(***************************************************************************)
(* analyzePath on any other path.                                          *)
(***************************************************************************)
\* the node one item of the directory pushes to children
ItemNodes(e) ==
  IF ~StatOk(e) THEN <<>>
  ELSE IF e.kind = "file" THEN <<FileNode(e.name, e.size, "file")>>
  ELSE IF e.kind = "dir"
       THEN <<FileNode(e.name, calculateDirectorySize(e, ShallowDepth), "directory")>>
  ELSE <<>>

RECURSIVE DirChildren(_)
DirChildren(items) ==
  IF items = <<>> THEN <<>>
  ELSE DirChildren(SubSeq(items, 1, Len(items) - 1)) \o ItemNodes(items[Len(items)])

\* children.sort((a, b) => b.size - a.size)
DirSortedChildren(node) == SortDesc(DirChildren(node.children))

\* the size of the node returned for a scanned directory
DirResultSize(sorted) == SumSizes(sorted)

\* the node returned for the file or directory at targetPath; the last return
\* of analyzePath when stat or readdir throws
PathResult(targetPath, node) ==
  LET base == targetPath[Len(targetPath)]
  IN IF StatOk(node) /\ node.kind = "file"
     THEN [name |-> base, size |-> node.size, type |-> "file", children |-> <<>>]
     ELSE IF StatOk(node) /\ ReaddirOk(node)
     THEN LET sorted == DirSortedChildren(node)
          IN [name |-> base, size |-> DirResultSize(sorted),
              type |-> "directory", children |-> sorted]
     ELSE [name |-> base, size |-> 0, type |-> "directory", children |-> <<>>]

(***************************************************************************)
(* analyzePath served from diskCache.largeDirectories.                     *)
(***************************************************************************)
\* the children built from the cached large directories
CachedChildren(dirs) ==
  [i \in 1..Len(dirs) |-> FileNode(dirs[i].name, dirs[i].size, "directory")]

\* the size of the node built from the cache
CachedResultSize(children) == SumSizes(children)

CachedResult(targetPath, dirs) ==
  LET children == CachedChildren(dirs)
  IN [name |-> PathString(targetPath), size |-> CachedResultSize(children),
      type |-> "directory", children |-> children]

(***************************************************************************)
(* getMounts: the output of the platform command and its parsing.          *)
(* A line of the CSV output is the sequence of its comma-separated parts,  *)
(* each part the sequence of its characters; a part that is missing        *)
(* (undefined) reads as the empty string, which the code treats alike.     *)
(***************************************************************************)
Digits == <<"0", "1", "2", "3", "4", "5", "6", "7", "8", "9">>

IsDigit(ch) == \E i \in 1..10 : Digits[i] = ch

DigitVal(ch) == (CHOOSE i \in 1..10 : Digits[i] = ch) - 1

\* the value of the leading digits of s, read left to right from acc
RECURSIVE LeadingDigits(_, _)
LeadingDigits(s, acc) ==
  IF s = <<>> \/ ~IsDigit(s[1]) THEN acc
  ELSE LeadingDigits(Tail(s), 10 * acc + DigitVal(s[1]))

\* parseInt(s): nan when s does not start with an optionally signed digit
parseInt(s) ==
  LET neg == s # <<>> /\ s[1] = "-"
      body == IF s # <<>> /\ s[1] \in {"-", "+"} THEN Tail(s) ELSE s
  IN IF body = <<>> \/ ~IsDigit(body[1]) THEN [nan |-> TRUE, val |-> 0]
     ELSE [nan |-> FALSE,
           val |-> IF neg THEN 0 - LeadingDigits(body, 0)
                   ELSE LeadingDigits(body, 0)]

\* parseInt(s) || 0
ParseIntOrZero(s) == IF parseInt(s).nan THEN 0 ELSE parseInt(s).val

\* parts[i], i counted from 0 as in the code
Part(parts, i) == IF i + 1 <= Len(parts) THEN parts[i + 1] ELSE <<>>

\* the mount points one line of the output adds
LineMounts(parts) ==
  LET caption == Part(parts, 1)
      freeSpace == Part(parts, 2)
      size == Part(parts, 3)
      volumeName == IF Len(parts) > 4 THEN Part(parts, 4) ELSE <<>>
      total == ParseIntOrZero(size)
      available == ParseIntOrZero(freeSpace)
  IN IF Len(parts) < 3 \/ caption = <<>> \/ size = <<>> \/ ~(total > 0)
     THEN <<>>
     ELSE <<[name |-> IF volumeName # <<>>
                      THEN volumeName \o <<" ", "(">> \o caption \o <<")">>
                      ELSE caption,
             path |-> caption,
             total |-> total,
             used |-> total - available,
             available |-> available]>>

\* the loop over the lines of stdout
RECURSIVE ParseMounts(_)
ParseMounts(lines) ==
  IF lines = <<>> THEN <<>>
  ELSE ParseMounts(SubSeq(lines, 1, Len(lines) - 1)) \o LineMounts(lines[Len(lines)])

\* the hard-coded drives of the catch branch; dOk: fs.stat('D:\\') succeeded
FallbackDrive(letter) ==
  [name |-> <<letter, ":">>, path |-> <<letter, ":">>, total |-> FallbackTotal,
   used |-> FallbackUsed, available |-> FallbackAvailable]

fallbackMounts(dOk) ==
  IF dOk THEN <<FallbackDrive("C"), FallbackDrive("D")>>
  ELSE <<FallbackDrive("C")>>

\* lines the platform command may print after its header
Node == <<"P", "C">>

LineC == <<Node, <<"C", ":">>, <<"1">>, <<"3">>, <<>>>>
LineD == <<Node, <<"D", ":">>, <<"2">>, <<"1", "2">>, <<"D", "a", "t", "a">>>>
LineZero == <<Node, <<"E", ":">>, <<>>, <<"0">>, <<>>>>
LineNegative == <<Node, <<"F", ":">>, <<"1">>, <<"-", "4">>, <<>>>>
LineJunk == <<Node, <<"G", ":">>, <<"1">>, <<"n", "/", "a">>, <<>>>>
LineShort == <<Node, <<"H", ":">>, <<"1">>>>
LineBlank == << <<>> >>

\* outputs of the platform command
Outputs ==
  { <<>>,
    <<LineC>>,
    <<LineC, LineD>>,
    <<LineZero, LineNegative>>,
    <<LineJunk, LineC, LineShort, LineBlank>> }

\* what awaiting the platform command yields
ExecOutcomes ==
  {[ok |-> FALSE, lines |-> <<>>]} \cup {[ok |-> TRUE, lines |-> l] : l \in Outputs}

(***************************************************************************)
(* The cache object and disk-cache.json.                                   *)
(* diskCache is whatever JSON.parse returned: isNull for null; hasMounts   *)
(* and hasDirs say whether the object has the properties mountPoints and   *)
(* largeDirectories; lastUpdated is -1 when the property is undefined.     *)
(***************************************************************************)
NoDirs == [k \in {} |-> <<>>]

EmptyCache ==
  [isNull |-> FALSE, hasMounts |-> TRUE, hasDirs |-> TRUE,
   mountPoints |-> <<>>, largeDirectories |-> NoDirs, lastUpdated |-> 0]

\* the JSON text null
NullCache ==
  [isNull |-> TRUE, hasMounts |-> FALSE, hasDirs |-> FALSE,
   mountPoints |-> <<>>, largeDirectories |-> NoDirs, lastUpdated |-> -1]

\* the JSON text {}
BareObject ==
  [isNull |-> FALSE, hasMounts |-> FALSE, hasDirs |-> FALSE,
   mountPoints |-> <<>>, largeDirectories |-> NoDirs, lastUpdated |-> -1]

\* reading diskCache.mountPoints.length throws a TypeError
MountsThrow(cache) == cache.isNull \/ ~cache.hasMounts

\* reading or writing diskCache.largeDirectories[key] throws a TypeError
DirsThrow(cache) == cache.isNull \/ ~cache.hasDirs

\* diskCache.largeDirectories[key] is truthy
HasEntry(cache, key) == key \in DOMAIN cache.largeDirectories

\* disk-cache.json: absent, not JSON, or the JSON text of a value
AbsentFile == [kind |-> "absent", value |-> NullCache]
GarbageFile == [kind |-> "garbage", value |-> NullCache]
JsonFile(value) == [kind |-> "json", value |-> value]

\* loadCacheFromFile: what diskCache becomes when the file reads as file
LoadedCache(file) == IF file.kind = "json" THEN file.value ELSE EmptyCache

(***************************************************************************)
(* The state of the service.                                               *)
(***************************************************************************)
VARIABLES
  fs,          \* the drive C: as the filesystem primitives see it
  diskCache,   \* the in-memory cache object
  cacheFile,   \* the content of disk-cache.json
  writes,      \* contents of the writeFile calls of saveCacheToFile in flight
  loading,     \* initializeCache() has not finished
  calls,       \* the requests in flight, by slot
  now,         \* Date.now()
  opsLeft,     \* requests still accepted
  response,    \* what the last step returned to a caller, if it returned
  lvPrev,      \* the last getMounts call that ended
  arg,         \* the argument a helper function is applied to
  ret          \* what the helper function returned

vars ==
  <<fs, diskCache, cacheFile, writes, loading, calls, now, opsLeft, response,
    lvPrev, arg, ret>>

Slots == 1..MaxCalls

FreeCall ==
  [op |-> "free", pc |-> "", path |-> <<>>, force |-> FALSE, sorted |-> <<>>,
   isDir |-> FALSE, overlap |-> FALSE, hadList |-> FALSE]

NoNode == [name |-> "", size |-> 0, type |-> "none", children |-> <<>>]

NoPrev == [valid |-> FALSE, force |-> FALSE, commands |-> 0]

NoResponse ==
  [op |-> "none", path |-> <<>>, force |-> FALSE, outcome |-> "",
   result |-> NoNode, lastUpdated |-> 0, mountPoints |-> <<>>,
   commands |-> 0, consecutive |-> FALSE, hadList |-> FALSE, prev |-> NoPrev,
   message |-> "", code |-> ""]

\* the entries a drive root may hold, in readdir's order; sealed is a
\* directory that stat reports with a size of its own and readdir refuses
RootPool ==
  <<Dir("$Recycle.Bin", <<File("a.txt", 3)>>),
    File("big.iso", 12),
    Dir("data", <<File("a.txt", 4),
                  File("b.txt", 9),
                  Locked("locked"),
                  [Dir("sealed", <<>>) EXCEPT !.listOk = FALSE, !.size = 2],
                  Dir("sub", <<File("c.txt", 1),
                               Dir("deep", <<File("b.txt", 2),
                                             Dir("deeper", <<File("a.txt", 7)>>)>>)>>),
                  Dir("Windows", <<File("a.txt", 5)>>)>>),
    File("pagefile.sys", 16),
    File("Program Files", 7),
    File("Users", 5)>>

\* the entries every drive of the model holds, and those it may hold
FixedNames == {"$Recycle.Bin", "pagefile.sys"}

OptionalNames == {"big.iso", "data", "Program Files", "Users"}

\* the drive C: holding the fixed entries and those named in names
VolumeWith(names) ==
  Dir("C:", SelectSeq(RootPool, LAMBDA e : e.name \in FixedNames \cup names))

\* a drive whose root can be neither listed nor stat'ed
VolumeLocked == Locked("C:")

VolumeA == VolumeWith({"big.iso", "data"})

VolumeB == VolumeWith({"Program Files", "Users"})

\* VolumeA with the symbolic link C:\data\loop to C:\data.  fs.stat and
\* fs.readdir follow a link, so the walk sees loop as a directory holding the
\* entries of data, loop among them; the links are unfolded as deep as the
\* deepest walk lists
VolumeLoop ==
  LET entries == Child(VolumeA, "data").children
      RECURSIVE Unfold(_)
      Unfold(n) ==
        IF n = 0 THEN entries
        ELSE Append(entries, Dir("loop", Unfold(n - 1)))
  IN [VolumeA EXCEPT !.children =
        [i \in 1..Len(@) |->
           IF @[i].name = "data" THEN Dir("data", Unfold(RootDepth + 1))
           ELSE @[i]]]

\* the drives of Spec
Volumes == {VolumeA, VolumeB, VolumeLocked, VolumeLoop}

\* the drives of SpecScan: those of Spec, the drive with the fixed entries
\* alone and the drive with every entry
ScanVolumes == Volumes \cup {VolumeWith({}), VolumeWith(OptionalNames)}

\* the paths requests name
DrivePath == <<"C:">>

RequestPaths == {DrivePath, <<"C:", "data">>, <<"C:", "data", "a.txt">>}

DeletePaths == RequestPaths

\* targetPath.endsWith(':')
IsDrive(targetPath) == EndsWith(PathChars(targetPath), <<":">>)

\* a cache file an earlier run of the service left: the drive was listed and
\* scanned at time 0
PersistedBy(volume) ==
  [isNull |-> FALSE, hasMounts |-> TRUE, hasDirs |-> TRUE,
   mountPoints |-> ParseMounts(<<LineC>>),
   largeDirectories |->
     IF ReaddirOk(volume)
     THEN DrivePath :> LargeDirectoriesOf(DrivePath,
            RootSortedChildren(volume, PathChars(DrivePath) \o <<"\\">>))
     ELSE NoDirs,
   lastUpdated |-> 0]

\* the states disk-cache.json may be in at startup
InitFiles(volume) ==
  {AbsentFile, GarbageFile, JsonFile(NullCache), JsonFile(BareObject),
   JsonFile(PersistedBy(volume))}

\* those of them an earlier run of the server leaves
SavedFiles(volume) == {AbsentFile, JsonFile(PersistedBy(volume))}

\* no helper function has been applied
NoArg == [fn |-> "none"]

NoRet == [fn |-> "none"]

\* the module has been loaded: diskCache holds its initial value and
\* initializeCache() is in flight
InitOn(volumes, anyFile, ops) ==
  /\ fs \in volumes
  /\ diskCache = EmptyCache
  /\ cacheFile \in IF anyFile THEN InitFiles(fs) ELSE SavedFiles(fs)
  /\ writes = {}
  /\ loading = TRUE
  /\ calls = [c \in Slots |-> FreeCall]
  /\ now = 0
  /\ opsLeft = ops
  /\ response = NoResponse
  /\ lvPrev = NoPrev
  /\ arg = NoArg
  /\ ret = NoRet

Init == InitOn(Volumes, TRUE, MaxOps)

FreeSlots == {c \in Slots : calls[c].op = "free"}

\* the slot a new request takes
NextSlot == CHOOSE c \in FreeSlots : \A d \in FreeSlots : c <= d

CanAccept == opsLeft > 0 /\ FreeSlots # {}

\* saveCacheToFile(): JSON.stringify(cache) is handed to writeFile
Saved(cache) == writes \cup {JsonFile(cache)}

\* the entry at path removed from the tree
RECURSIVE RemoveEntry(_, _)
RemoveEntry(node, p) ==
  IF Len(p) = 1
  THEN [node EXCEPT !.children = SelectSeq(@, LAMBDA e : e.name # p[1])]
  ELSE [node EXCEPT !.children =
          [i \in 1..Len(@) |->
             IF @[i].name = p[1] THEN RemoveEntry(@[i], Tail(p)) ELSE @[i]]]

(***************************************************************************)
(* Steps of the environment.                                               *)
(***************************************************************************)
\* the readings Date.now() may yield: the last one, or a later one
Readings == {now, now + 1}

\* a writeFile of saveCacheToFile completes
WriteDone ==
  \E w \in writes :
    /\ cacheFile' = w
    /\ writes' = writes \ {w}
    /\ response' = NoResponse
    /\ UNCHANGED <<fs, diskCache, loading, calls, now, opsLeft,
                   lvPrev, arg, ret>>

\* loadCacheFromFile, started by initializeCache when the module was loaded
LoadFinish ==
  /\ loading
  /\ loading' = FALSE
  /\ diskCache' = LoadedCache(cacheFile)
  /\ response' = NoResponse
  /\ UNCHANGED <<fs, cacheFile, writes, calls, now, opsLeft, lvPrev, arg, ret>>

(***************************************************************************)
(* getMounts(forceRefresh).                                                *)
(***************************************************************************)
OthersListing(c) == \E k \in Slots \ {c} : calls[k].op = "getMounts"

\* the slots once the getMounts call of slot c has ended (c = 0: a call that
\* ended in the step that started it): the getMounts calls still in flight
\* overlap it
AfterMounts(c) ==
  [k \in Slots |->
     IF k = c THEN FreeCall
     ELSE IF calls[k].op = "getMounts" THEN [calls[k] EXCEPT !.overlap = TRUE]
     ELSE calls[k]]

\* what a getMounts call that ends hands to its caller; outcome "throw" is
\* the rejection of its promise by a TypeError
MountsResponse(call, outcome, mounts, lastUpdated, commands) ==
  [NoResponse EXCEPT
     !.op = "getMounts", !.force = call.force, !.outcome = outcome,
     !.mountPoints = mounts, !.lastUpdated = lastUpdated,
     !.commands = commands,
     !.consecutive = lvPrev.valid /\ ~call.overlap,
     !.hadList = call.hadList,
     !.prev = lvPrev]

\* a volume list is cached: diskCache.mountPoints.length > 0
HasCachedList(cache) == ~MountsThrow(cache) /\ Len(cache.mountPoints) > 0

\* a cached branch that wants more than one cached volume
ServesCachedMounts_OffByOne(force) ==
  ~force /\ ~MountsThrow(diskCache) /\ Len(diskCache.mountPoints) > 1

\* a cached branch that is never taken
ServesCachedMounts_Never(force) == FALSE

\* the cached branch is taken
ServesCachedMounts(force) ==
  ~force /\ ~MountsThrow(diskCache) /\ Len(diskCache.mountPoints) > 0

\* the call up to its first await: the cached list, or the platform command
GetMountsStart ==
  \E force \in BOOLEAN :
    /\ CanAccept
    /\ opsLeft' = opsLeft - 1
    /\ LET call == [FreeCall EXCEPT
                      !.op = "getMounts", !.pc = "exec", !.force = force,
                      !.overlap = OthersListing(0),
                      !.hadList = HasCachedList(diskCache)]
       IN IF ~force /\ MountsThrow(diskCache)
          THEN /\ response' = MountsResponse(call, "throw", <<>>, 0, 0)
               /\ lvPrev' = [valid |-> TRUE, force |-> force, commands |-> 0]
               /\ calls' = AfterMounts(0)
          ELSE IF ServesCachedMounts(force)
          THEN /\ response' = MountsResponse(call, "cached",
                                diskCache.mountPoints, diskCache.lastUpdated, 0)
               /\ lvPrev' = [valid |-> TRUE, force |-> force, commands |-> 0]
               /\ calls' = AfterMounts(0)
          ELSE /\ response' = NoResponse
               /\ lvPrev' = lvPrev
               /\ calls' = [calls EXCEPT ![NextSlot] = call]
    /\ UNCHANGED <<fs, diskCache, cacheFile, writes, loading, now, arg, ret>>

\* the platform command has ended: the try block after the await, and the
\* catch block up to its await
GetMountsExec ==
  \E c \in Slots, out \in ExecOutcomes, time \in Readings :
    /\ calls[c].op = "getMounts" /\ calls[c].pc = "exec"
    /\ LET call == calls[c]
           mounts == ParseMounts(out.lines)
           stored == [diskCache EXCEPT !.hasMounts = TRUE, !.mountPoints = mounts,
                                       !.lastUpdated = time]
       IN IF out.ok /\ ~diskCache.isNull
          THEN /\ now' = time
               /\ diskCache' = stored
               /\ writes' = Saved(stored)
               /\ response' = MountsResponse(call, "fresh",
                                mounts, time, 1)
               /\ lvPrev' = [valid |-> TRUE, force |-> call.force, commands |-> 1]
               /\ calls' = AfterMounts(c)
          ELSE IF MountsThrow(diskCache)
          THEN /\ time = now
               /\ response' = MountsResponse(call, "throw",
                                <<>>, 0, 1)
               /\ lvPrev' = [valid |-> TRUE, force |-> call.force, commands |-> 1]
               /\ calls' = AfterMounts(c)
               /\ UNCHANGED <<diskCache, writes, now>>
          ELSE IF Len(diskCache.mountPoints) = 0
          THEN /\ time = now
               /\ response' = NoResponse
               /\ calls' = [calls EXCEPT ![c].pc = "statD"]
               /\ UNCHANGED <<diskCache, writes, lvPrev, now>>
          ELSE /\ time = now
               /\ response' = MountsResponse(call, "stale",
                                diskCache.mountPoints, diskCache.lastUpdated, 1)
               /\ lvPrev' = [valid |-> TRUE, force |-> call.force, commands |-> 1]
               /\ calls' = AfterMounts(c)
               /\ UNCHANGED <<diskCache, writes, now>>
    /\ UNCHANGED <<fs, cacheFile, loading, opsLeft, arg, ret>>

\* the cache after the fallback drives were stored
FallbackStored(cache, dOk, time) ==
  [cache EXCEPT !.hasMounts = TRUE, !.mountPoints = fallbackMounts(dOk),
                !.lastUpdated = time]

\* fs.stat('D:\\') has ended: the rest of the catch block
GetMountsFallback ==
  \E c \in Slots, dOk \in BOOLEAN, time \in Readings :
    /\ calls[c].op = "getMounts" /\ calls[c].pc = "statD"
    /\ LET call == calls[c]
           stored == FallbackStored(diskCache, dOk, time)
       IN IF diskCache.isNull
          THEN /\ time = now
               /\ response' = MountsResponse(call, "throw",
                                <<>>, 0, 1)
               /\ UNCHANGED <<diskCache, writes, now>>
          ELSE /\ now' = time
               /\ diskCache' = stored
               /\ writes' = writes
               /\ response' = MountsResponse(call, "fallback",
                                stored.mountPoints, stored.lastUpdated, 1)
    /\ lvPrev' = [valid |-> TRUE, force |-> calls[c].force, commands |-> 1]
    /\ calls' = AfterMounts(c)
    /\ UNCHANGED <<fs, cacheFile, loading, opsLeft, arg, ret>>

(***************************************************************************)
(* analyzePath(targetPath, forceRefresh).                                  *)
(***************************************************************************)
AnalyzeResponse(call, outcome, result, lastUpdated) ==
  [NoResponse EXCEPT
     !.op = "analyze", !.path = call.path, !.force = call.force,
     !.outcome = outcome, !.result = result, !.lastUpdated = lastUpdated]

\* the cached branch is taken
ServesCachedDirs(targetPath, force) ==
  ~force /\ ~DirsThrow(diskCache) /\ HasEntry(diskCache, targetPath)

\* the call up to its first await: the cached entry, or the walk is started
AnalyzeStart ==
  \E targetPath \in RequestPaths, force \in BOOLEAN :
    /\ CanAccept
    /\ opsLeft' = opsLeft - 1
    /\ LET call == [FreeCall EXCEPT !.op = "analyze", !.pc = "walk",
                      !.path = targetPath, !.force = force]
       IN IF ~force /\ DirsThrow(diskCache)
          THEN /\ response' = AnalyzeResponse(call, "throw", NoNode, 0)
               /\ calls' = calls
          ELSE IF ServesCachedDirs(targetPath, force)
          THEN /\ response' = AnalyzeResponse(call, "cached",
                                CachedResult(targetPath,
                                  diskCache.largeDirectories[targetPath]),
                                diskCache.lastUpdated)
               /\ calls' = calls
          ELSE /\ response' = NoResponse
               /\ calls' = [calls EXCEPT ![NextSlot] = call]
    /\ UNCHANGED <<fs, diskCache, cacheFile, writes, loading, now,
                   lvPrev, arg, ret>>

\* the catch block of the drive branch
RootErrorResponse(call) ==
  IF diskCache.isNull THEN AnalyzeResponse(call, "throw", NoNode, 0)
  ELSE AnalyzeResponse(call, "rootError", RootError(call.path),
         diskCache.lastUpdated)

\* a path other than a drive was scanned
PathOutcome(node) ==
  IF StatOk(node) /\ (node.kind = "file" \/ ReaddirOk(node)) THEN "scanned"
  ELSE "unreadable"

\* the walk: the filesystem is read.  A drive whose root was listed goes on
\* to store its result; every other walk returns.
AnalyzeWalk ==
  \E c \in Slots, time \in Readings :
    /\ calls[c].op = "analyze" /\ calls[c].pc = "walk"
    /\ LET call == calls[c]
           node == Resolve(fs, call.path)
       IN IF IsDrive(call.path)
          THEN IF ReaddirOk(node)
               THEN /\ time = now
                    /\ now' = now
                    /\ response' = NoResponse
                    /\ calls' = [calls EXCEPT ![c].pc = "store",
                                   ![c].sorted = RootSortedChildren(node,
                                      PathChars(call.path) \o <<"\\">>)]
               ELSE /\ time = now
                    /\ now' = now
                    /\ response' = RootErrorResponse(call)
                    /\ calls' = [calls EXCEPT ![c] = FreeCall]
          ELSE /\ now' = time
               /\ response' = AnalyzeResponse(call, PathOutcome(node),
                                PathResult(call.path, node), time)
               /\ calls' = [calls EXCEPT ![c] = FreeCall]
    /\ UNCHANGED <<fs, diskCache, cacheFile, writes, loading,
                   opsLeft, lvPrev, arg, ret>>

\* the cache after the result of a drive scan was stored
DirsStored(cache, targetPath, sorted, time) ==
  [cache EXCEPT
     !.largeDirectories = (targetPath :> LargeDirectoriesOf(targetPath, sorted)) @@ @,
     !.lastUpdated = time]

\* the end of the drive branch: save to cache, save cache to file, return
AnalyzeStore ==
  \E c \in Slots, time \in Readings :
    /\ calls[c].op = "analyze" /\ calls[c].pc = "store"
    /\ LET call == calls[c]
           stored == DirsStored(diskCache, call.path, call.sorted, time)
       IN IF DirsThrow(diskCache)
          THEN /\ time = now
               /\ response' = RootErrorResponse(call)
               /\ UNCHANGED <<diskCache, writes, now>>
          ELSE /\ now' = time
               /\ diskCache' = stored
               /\ writes' = Saved(stored)
               /\ response' = AnalyzeResponse(call, "scanned",
                                RootResult(call.path, call.sorted), time)
    /\ calls' = [calls EXCEPT ![c] = FreeCall]
    /\ UNCHANGED <<fs, cacheFile, loading, opsLeft, lvPrev, arg, ret>>

(***************************************************************************)
(* deletePath(targetPath).                                                 *)
(***************************************************************************)
\* code is the error.code the catch block received, "" when none was thrown
DeleteResponse(call, outcome, message, code) ==
  [NoResponse EXCEPT
     !.op = "delete", !.path = call.path, !.outcome = outcome,
     !.message = message, !.code = code]

\* a catch block that reports a busy entry with the generic message
ErrorMessage_BusyIsGeneric(code) ==
  IF code \in {"EACCES", "EPERM"} THEN "Permission denied"
  ELSE IF code = "ENOENT" THEN "File or directory not found"
  ELSE "Failed to delete path"

\* the message of the catch block for error.code
ErrorMessage(code) ==
  IF code \in {"EACCES", "EPERM"} THEN "Permission denied"
  ELSE IF code = "EBUSY" THEN "In use by another process"
  ELSE IF code = "ENOENT" THEN "File or directory not found"
  ELSE "Failed to delete path"

\* the error code of fs.stat on the entry
StatError(node) == IF node.kind = "none" THEN "ENOENT" ELSE "EPERM"

\* the call up to the end of fs.stat
DeleteStart ==
  \E targetPath \in DeletePaths :
    /\ CanAccept
    /\ opsLeft' = opsLeft - 1
    /\ LET node == Resolve(fs, targetPath)
           call == [FreeCall EXCEPT !.op = "delete", !.pc = "rm",
                      !.path = targetPath, !.isDir = node.kind = "dir"]
       IN IF StatOk(node)
          THEN /\ response' = NoResponse
               /\ calls' = [calls EXCEPT ![NextSlot] = call]
          ELSE /\ response' = DeleteResponse(call, "failed",
                                ErrorMessage(StatError(node)), StatError(node))
               /\ calls' = calls
    /\ UNCHANGED <<fs, diskCache, cacheFile, writes, loading, now,
                   lvPrev, arg, ret>>

\* the errors fs.rm and fs.unlink may end with; "" is success
RemoveErrors == {"", "EPERM", "EBUSY", "EIO"}

\* the cache once deletePath removed what it removes
DirsRemoved(cache, targetPath) ==
  [cache EXCEPT !.largeDirectories =
     [k \in DOMAIN @ \ {targetPath} |-> @[k]]]

\* fs.rm or fs.unlink has ended: the rest of the try block, or the catch block
DeleteRemove ==
  \E c \in Slots, err \in RemoveErrors, partial \in BOOLEAN :
    /\ calls[c].op = "delete" /\ calls[c].pc = "rm"
    /\ LET call == calls[c]
           node == Resolve(fs, call.path)
           \* rm with force: true does not mind a missing path, unlink does
           code == IF err # "" THEN err
                   ELSE IF ~call.isDir /\ node.kind = "none" THEN "ENOENT"
                   ELSE ""
           removed == DirsRemoved(diskCache, call.path)
           \* what a recursive fs.rm that fails may leave: the first entry
           \* of the directory gone, the rest in place
           \* 'C:' names the current directory of the drive, here its root:
           \* a removal that succeeds leaves the drive without entries
           emptied == [fs EXCEPT !.children = <<>>]
           partlyRemoved ==
             IF node.kind = "dir" /\ node.children # <<>>
             THEN RemoveEntry(fs, Tail(call.path) \o <<node.children[1].name>>)
             ELSE fs
       IN IF code # ""
          THEN /\ response' = DeleteResponse(call, "failed", ErrorMessage(code), code)
               /\ fs' = IF partial THEN partlyRemoved ELSE fs
               /\ UNCHANGED <<diskCache, writes>>
          ELSE /\ fs' = IF node.kind = "none" THEN fs
                        ELSE IF call.path = DrivePath THEN emptied
                        ELSE RemoveEntry(fs, Tail(call.path))
               /\ IF DirsThrow(diskCache)
                  THEN /\ response' = DeleteResponse(call, "failed",
                                        ErrorMessage("TypeError"), "TypeError")
                       /\ UNCHANGED <<diskCache, writes>>
                  ELSE IF HasEntry(diskCache, call.path)
                  THEN /\ diskCache' = removed
                       /\ writes' = Saved(removed)
                       /\ response' = DeleteResponse(call, "deleted", "Successfully deleted", "")
                  ELSE /\ response' = DeleteResponse(call, "deleted", "Successfully deleted", "")
                       /\ UNCHANGED <<diskCache, writes>>
    /\ calls' = [calls EXCEPT ![c] = FreeCall]
    /\ UNCHANGED <<cacheFile, loading, now, opsLeft, lvPrev, arg, ret>>

\* the type of the message the 'delete' case of the WebSocket handler sends
\* for a deletePath call that ended as answer tells: 'error' from the catch
\* block when the call threw, 'deleted' in every other case
wsDeleteReply(answer) ==
  IF answer.outcome = "throw" THEN "error" ELSE "deleted"

(***************************************************************************)
(* The service.                                                            *)
(***************************************************************************)
Next ==
  \/ WriteDone
  \/ LoadFinish
  \/ GetMountsStart
  \/ GetMountsExec
  \/ GetMountsFallback
  \/ AnalyzeStart
  \/ AnalyzeWalk
  \/ AnalyzeStore
  \/ DeleteStart
  \/ DeleteRemove

Spec == Init /\ [][Next]_vars

(***************************************************************************)
(* The volume enumerator alone: the startup load, the saves and getMounts. *)
(***************************************************************************)
InitVolumes == InitOn({VolumeA}, TRUE, MaxListOps)

NextVolumes ==
  \/ WriteDone
  \/ LoadFinish
  \/ GetMountsStart
  \/ GetMountsExec
  \/ GetMountsFallback

SpecVolumes == InitVolumes /\ [][NextVolumes]_vars

(***************************************************************************)
(* The scanner and the deletion alone: the startup load, the saves,        *)
(* analyzePath and deletePath.                                             *)
(***************************************************************************)
InitScan == InitOn(ScanVolumes, FALSE, MaxScanOps)

NextScan ==
  \/ WriteDone
  \/ LoadFinish
  \/ AnalyzeStart
  \/ AnalyzeWalk
  \/ AnalyzeStore
  \/ DeleteStart
  \/ DeleteRemove

SpecScan == InitScan /\ [][NextScan]_vars

(***************************************************************************)
(* utils/platform.ts: parseDrivesOutput.  The output of the command is the *)
(* sequence of its lines, a line the sequence of its parts as split        *)
(* yields them.  A number is [nan, val]: parseInt(x) * 1024 is NaN when    *)
(* parseInt(x) is.                                                         *)
(***************************************************************************)
\* the service at rest, while a helper function is applied
Idle ==
  /\ fs = VolumeA
  /\ diskCache = EmptyCache
  /\ cacheFile = AbsentFile
  /\ writes = {}
  /\ loading = FALSE
  /\ calls = [c \in Slots |-> FreeCall]
  /\ now = 0
  /\ opsLeft = 0
  /\ response = NoResponse
  /\ lvPrev = NoPrev

service ==
  <<fs, diskCache, cacheFile, writes, loading, calls, now, opsLeft, response,
    lvPrev>>

\* parseDrivesOutput(output), the output split in lines and the lines in parts
parseDrivesOutput(platform, lines) ==
  LET Num(v) == [nan |-> FALSE, val |-> v]
      \* parseInt(s) * 1024
      KBytes(s) == [nan |-> parseInt(s).nan, val |-> parseInt(s).val * 1024]
      \* lines.slice(1)
      Slice1(ls) == IF ls = <<>> THEN <<>> ELSE Tail(ls)
      \* the Windows branch for one line: null is the empty sequence
      WindowsDrive(parts) ==
        LET caption == Part(parts, 1)
            freeSpace == Part(parts, 2)
            size == Part(parts, 3)
            volumeName == IF Len(parts) > 4 THEN Part(parts, 4) ELSE <<>>
            total == ParseIntOrZero(size)
            available == ParseIntOrZero(freeSpace)
        IN IF Len(parts) < 3 THEN <<>>
           ELSE <<[name |-> IF volumeName # <<>>
                            THEN volumeName \o <<" ", "(">> \o caption \o <<")">>
                            ELSE caption,
                   path |-> caption,
                   total |-> Num(total),
                   used |-> Num(total - available),
                   available |-> Num(available)]>>
      \* the macOS branch for one line
      MacSkipped(mountPath) ==
        \/ mountPath = <<"/", "p", "r", "i", "v", "a", "t", "e", "/", "v", "a", "r", "/", "v", "m">>
        \/ mountPath = <<"/", "d", "e", "v">>
        \/ StartsWith(mountPath, <<"/", "S", "y", "s", "t", "e", "m", "/", "V", "o", "l", "u", "m", "e", "s">>)
        \/ mountPath = <<"/">>
      MacDrive(parts) ==
        LET mountPath == IF Part(parts, 8) # <<>> THEN Part(parts, 8) ELSE Part(parts, 5)
        IN IF Len(parts) < 6 \/ MacSkipped(mountPath) THEN <<>>
           ELSE <<[name |-> mountPath,
                   path |-> mountPath,
                   total |-> KBytes(Part(parts, 1)),
                   used |-> KBytes(Part(parts, 2)),
                   available |-> KBytes(Part(parts, 3))]>>
      \* the Linux branch for one line
      LinuxSkipped(mountPath) == mountPath \in {<<"/", "b", "o", "o", "t">>, <<"/", "d", "e", "v">>, <<"/", "p", "r", "o", "c">>, <<"/", "s", "y", "s">>}
      LinuxDrive(parts) ==
        LET mountPath == Part(parts, 5)
        IN IF Len(parts) < 6 \/ LinuxSkipped(mountPath) THEN <<>>
           ELSE <<[name |-> mountPath,
                   path |-> mountPath,
                   total |-> KBytes(Part(parts, 2)),
                   used |-> KBytes(Part(parts, 3)),
                   available |-> KBytes(Part(parts, 4))]>>
      \* lines.map(...).filter(item => item !== null)
      RECURSIVE MapDrives(_)
      MapDrives(ls) ==
        IF ls = <<>> THEN <<>>
        ELSE LET parts == ls[1]
             IN (CASE platform = "windows" -> WindowsDrive(parts)
                   [] platform = "macos" -> MacDrive(parts)
                   [] OTHER -> LinuxDrive(parts))
                \o MapDrives(Tail(ls))
  IN CASE platform = "windows" -> MapDrives(Slice1(lines))
       [] platform = "macos" -> MapDrives(lines)
       [] platform = "linux" -> MapDrives(Slice1(lines))
       [] OTHER -> <<>>

\* an output of the platform's command, or of echo on an unknown platform:
\* the header and at most MaxRows of the lines the command may print
ParserInputs ==
  LET WmicHeader == <<<<"N", "o", "d", "e">>, <<"C", "a", "p", "t", "i", "o", "n">>, <<"F", "r", "e", "e", "S", "p", "a", "c", "e">>, <<"S", "i", "z", "e">>, <<"V", "o", "l", "u", "m", "e", "N", "a", "m", "e">>>>
      WmicLines == {LineC, LineD, LineZero, LineNegative, LineJunk, LineShort, LineBlank}
      LinuxHeader == <<<<"F", "i", "l", "e", "s", "y", "s", "t", "e", "m">>, <<"T", "y", "p", "e">>, <<"1", "K", "-", "b", "l", "o", "c", "k", "s">>, <<"U", "s", "e", "d">>, <<"A", "v", "a", "i", "l">>, <<"M", "o", "u", "n", "t", "e", "d">>, <<"o", "n">>>>
      LinuxHome == <<<<"/", "d", "e", "v", "/", "s", "d", "a", "1">>, <<"e", "x", "t", "4">>, <<"1", "0", "0">>, <<"4", "0">>, <<"6", "0">>, <<"/", "h", "o", "m", "e">>>>
      LinuxBoot == <<<<"/", "d", "e", "v", "/", "s", "d", "a", "2">>, <<"v", "f", "a", "t">>, <<"5", "0">>, <<"1", "0">>, <<"4", "0">>, <<"/", "b", "o", "o", "t">>>>
      LinuxOverlay == <<<<"o", "v", "e", "r", "l", "a", "y">>, <<"o", "v", "e", "r", "l", "a", "y">>, <<"0">>, <<"0">>, <<"0">>, <<"/", "m", "n", "t">>>>
      LinuxJunk == <<<<"n", "o", "n", "e">>, <<"n", "f", "s">>, <<"-">>, <<"-">>, <<"-">>, <<"/", "n", "e", "t">>>>
      LinuxLines == {LinuxHome, LinuxBoot, LinuxOverlay, LinuxJunk, LineBlank}
      MacHeader == <<<<"F", "i", "l", "e", "s", "y", "s", "t", "e", "m">>, <<"1", "0", "2", "4", "-", "b", "l", "o", "c", "k", "s">>, <<"U", "s", "e", "d">>, <<"A", "v", "a", "i", "l", "a", "b", "l", "e">>, <<"C", "a", "p", "a", "c", "i", "t", "y">>, <<"i", "u", "s", "e", "d">>, <<"i", "f", "r", "e", "e">>, <<"%", "i", "u", "s", "e", "d">>, <<"M", "o", "u", "n", "t", "e", "d">>, <<"o", "n">>>>
      MacData == <<<<"/", "d", "e", "v", "/", "d", "i", "s", "k", "1", "s", "1">>, <<"1", "0", "0">>, <<"4", "0">>, <<"6", "0">>, <<"4", "0", "%">>, <<"1">>, <<"2">>, <<"0", "%">>, <<"/", "V", "o", "l", "u", "m", "e", "s", "/", "D", "a", "t", "a">>>>
      MacRoot == <<<<"/", "d", "e", "v", "/", "d", "i", "s", "k", "1", "s", "5">>, <<"1", "0", "0">>, <<"4", "0">>, <<"6", "0">>, <<"4", "0", "%">>, <<"1">>, <<"2">>, <<"0", "%">>, <<"/">>>>
      MacShort == <<<<"d", "e", "v", "f", "s">>, <<"1">>, <<"1">>, <<"0">>, <<"1", "0", "0", "%">>, <<"/", "d", "e", "v">>>>
      MacEmpty == <<<<"m", "a", "p">>, <<"0">>, <<"0">>, <<"0">>, <<"1", "0", "0", "%">>, <<"0">>, <<"0">>, <<"1", "0", "0", "%">>, <<"/", "h", "o", "m", "e">>>>
      MacLines == {MacData, MacRoot, MacShort, MacEmpty, LineBlank}
      Rows(pool) == UNION {[1..n -> pool] : n \in 0..MaxRows}
  IN {[fn |-> "parseDrivesOutput", platform |-> "windows", lines |-> <<WmicHeader>> \o r] :
        r \in Rows(WmicLines)}
     \cup
     {[fn |-> "parseDrivesOutput", platform |-> "linux", lines |-> <<LinuxHeader>> \o r] :
        r \in Rows(LinuxLines)}
     \cup
     {[fn |-> "parseDrivesOutput", platform |-> "macos", lines |-> <<MacHeader>> \o r] :
        r \in Rows(MacLines)}
     \cup
     {[fn |-> "parseDrivesOutput", platform |-> "unknown", lines |-> <<LineBlank>>]}

ParseDrivesOutput ==
  /\ arg.fn = "parseDrivesOutput" /\ ret = NoRet
  /\ ret' = [fn |-> "parseDrivesOutput",
             value |-> parseDrivesOutput(arg.platform, arg.lines)]
  /\ UNCHANGED <<service, arg>>

(***************************************************************************)
(* The classifiers: shouldSkipPath of services/disk.ts and isSystemPath of *)
(* utils/platform.ts.  A path is the sequence of its characters.           *)
(***************************************************************************)
UpperLetters == <<"A", "B", "C", "D", "E", "F", "G", "H", "I", "J", "K", "L", "M", "N", "O", "P", "Q", "R", "S", "T", "U", "V", "W", "X", "Y", "Z">>

LowerLetters == <<"a", "b", "c", "d", "e", "f", "g", "h", "i", "j", "k", "l", "m", "n", "o", "p", "q", "r", "s", "t", "u", "v", "w", "x", "y", "z">>

\* String.prototype.toLowerCase
LowerChar(ch) ==
  IF \E i \in 1..Len(UpperLetters) : UpperLetters[i] = ch
  THEN LowerLetters[CHOOSE i \in 1..Len(UpperLetters) : UpperLetters[i] = ch]
  ELSE ch

toLowerCase(s) == [i \in 1..Len(s) |-> LowerChar(s[i])]

\* String.prototype.toUpperCase
UpperChar(ch) ==
  IF \E i \in 1..Len(LowerLetters) : LowerLetters[i] = ch
  THEN UpperLetters[CHOOSE i \in 1..Len(LowerLetters) : LowerLetters[i] = ch]
  ELSE ch

toUpperCase(s) == [i \in 1..Len(s) |-> UpperChar(s[i])]

SYSTEM_PATHS ==
  <<<<"S", "y", "s", "t", "e", "m", " ", "V", "o", "l", "u", "m", "e", " ", "I", "n", "f", "o", "r", "m", "a", "t", "i", "o", "n">>,
   <<"p", "a", "g", "e", "f", "i", "l", "e", ".", "s", "y", "s">>,
   <<"s", "w", "a", "p", "f", "i", "l", "e", ".", "s", "y", "s">>,
   <<"h", "i", "b", "e", "r", "f", "i", "l", ".", "s", "y", "s">>,
   <<"D", "u", "m", "p", "S", "t", "a", "c", "k", ".", "l", "o", "g">>,
   <<"$", "R", "e", "c", "y", "c", "l", "e", ".", "B", "i", "n">>,
   <<"$", "W", "I", "N", "D", "O", "W", "S", ".", "~", "B", "T">>,
   <<"$", "W", "i", "n", "d", "o", "w", "s", ".", "~", "W", "S">>,
   <<"W", "i", "n", "d", "o", "w", "s", ".", "o", "l", "d">>,
   <<"D", "u", "m", "p", "S", "t", "a", "c", "k", ".", "l", "o", "g", ".", "t", "m", "p">>,
   <<"b", "o", "o", "t", "n", "x", "t">>,
   <<"b", "o", "o", "t", "m", "g", "r">>,
   <<"b", "o", "o", "t">>,
   <<"c", "o", "n", "f", "i", "g", ".", "s", "y", "s">>,
   <<"R", "e", "c", "o", "v", "e", "r", "y">>,
   <<"P", "r", "o", "g", "r", "a", "m", "D", "a", "t", "a">>,
   <<"D", "o", "c", "u", "m", "e", "n", "t", "s", " ", "a", "n", "d", " ", "S", "e", "t", "t", "i", "n", "g", "s">>,
   <<"d", "e", "s", "k", "t", "o", "p", ".", "i", "n", "i">>,
   <<".", "D", "o", "c", "u", "m", "e", "n", "t", "R", "e", "v", "i", "s", "i", "o", "n", "s", "-", "V", "1", "0", "0">>,
   <<".", "f", "s", "e", "v", "e", "n", "t", "s", "d">>,
   <<".", "S", "p", "o", "t", "l", "i", "g", "h", "t", "-", "V", "1", "0", "0">>,
   <<".", "T", "e", "m", "p", "o", "r", "a", "r", "y", "I", "t", "e", "m", "s">>,
   <<".", "T", "r", "a", "s", "h", "e", "s">>,
   <<".", "v", "o", "l">>,
   <<"W", "i", "n", "d", "o", "w", "s", "A", "p", "p", "s">>,
   <<"W", "p", "S", "y", "s", "t", "e", "m">>,
   <<"M", "S", "O", "C", "a", "c", "h", "e">>,
   <<"\\", "$", "G", "e", "t", "C", "u", "r", "r", "e", "n", "t">>,
   <<"\\", "$", "S", "y", "s", "R", "e", "s", "e", "t">>,
   <<"\\", "$", "W", "i", "n", "d", "o", "w", "s", ".", "~", "W", "S">>,
   <<"\\", "$", "W", "i", "n", "R", "E", "A", "g", "e", "n", "t">>,
   <<"N", "T", "U", "S", "E", "R", ".", "D", "A", "T">>>>

\* a separator of path.win32, of path.posix
IsSep(platform, ch) == ch = "/" \/ (platform = "windows" /\ ch = "\\")

\* path.basename: the drive prefix of path.win32 and the trailing separators
\* dropped, what follows the last separator kept
RECURSIVE StripSeps(_, _)
StripSeps(platform, s) ==
  IF s # <<>> /\ IsSep(platform, s[Len(s)])
  THEN StripSeps(platform, SubSeq(s, 1, Len(s) - 1))
  ELSE s

RECURSIVE LastPart(_, _)
LastPart(platform, s) ==
  IF s = <<>> \/ IsSep(platform, s[Len(s)]) THEN <<>>
  ELSE LastPart(platform, SubSeq(s, 1, Len(s) - 1)) \o <<s[Len(s)]>>

basename(platform, p) ==
  LET drive == /\ platform = "windows" /\ Len(p) >= 2 /\ p[2] = ":"
               /\ LowerChar(p[1]) # UpperChar(p[1])
      body == IF drive THEN SubSeq(p, 3, Len(p)) ELSE p
  IN LastPart(platform, StripSeps(platform, body))

\* a classifier that takes a leading '.' of any component for a hidden base
\* name
shouldSkipPath_AnyComponent(platform, itemPath) ==
  \/ \E i \in 1..Len(SYSTEM_PATHS) :
       Includes(toLowerCase(itemPath), toLowerCase(SYSTEM_PATHS[i]))
  \/ StartsWith(basename(platform, itemPath), <<"$">>)
  \/ StartsWith(basename(platform, itemPath), <<".">>)
  \/ Includes(itemPath, <<"\\", ".">>)
  \/ Includes(itemPath, <<"/", ".">>)
  \/ Includes(toLowerCase(itemPath), <<"w", "i", "n", "d", "o", "w", "s">>)
  \/ Includes(toLowerCase(itemPath), <<"p", "r", "o", "g", "r", "a", "m", " ", "f", "i", "l", "e", "s">>)

\* shouldSkipPath(itemPath), path being the path module of the platform
shouldSkipPath(platform, itemPath) ==
  \/ \E i \in 1..Len(SYSTEM_PATHS) :
       Includes(toLowerCase(itemPath), toLowerCase(SYSTEM_PATHS[i]))
  \/ StartsWith(basename(platform, itemPath), <<"$">>)
  \/ StartsWith(basename(platform, itemPath), <<".">>)
  \/ Includes(toLowerCase(itemPath), <<"w", "i", "n", "d", "o", "w", "s">>)
  \/ Includes(toLowerCase(itemPath), <<"p", "r", "o", "g", "r", "a", "m", " ", "f", "i", "l", "e", "s">>)

\* getSystemDirs()
getSystemDirs(platform) ==
  CASE platform = "windows" ->
         <<<<"$", "R", "e", "c", "y", "c", "l", "e", ".", "B", "i", "n">>,
           <<"S", "y", "s", "t", "e", "m", " ", "V", "o", "l", "u", "m", "e", " ", "I", "n", "f", "o", "r", "m", "a", "t", "i", "o", "n">>,
           <<"p", "a", "g", "e", "f", "i", "l", "e", ".", "s", "y", "s">>,
           <<"h", "i", "b", "e", "r", "f", "i", "l", ".", "s", "y", "s">>,
           <<"s", "w", "a", "p", "f", "i", "l", "e", ".", "s", "y", "s">>>>
    [] platform = "macos" ->
         <<<<".", "S", "p", "o", "t", "l", "i", "g", "h", "t", "-", "V", "1", "0", "0">>,
           <<".", "T", "r", "a", "s", "h", "e", "s">>,
           <<".", "f", "s", "e", "v", "e", "n", "t", "s", "d">>,
           <<"S", "y", "s", "t", "e", "m">>,
           <<"p", "r", "i", "v", "a", "t", "e">>,
           <<"d", "e", "v">>,
           <<"c", "o", "r", "e", "s">>>>
    [] OTHER ->
         <<<<"p", "r", "o", "c">>,
           <<"s", "y", "s">>,
           <<"d", "e", "v">>,
           <<"r", "u", "n">>,
           <<"b", "o", "o", "t">>>>

\* isSystemPath(path)
isSystemPath(platform, p) ==
  \/ \E i \in 1..Len(getSystemDirs(platform)) : Includes(p, getSystemDirs(platform)[i])
  \/ /\ platform = "windows"
     /\ Includes(p, <<"\\", "W", "i", "n", "d", "o", "w", "s", "\\">>)
     /\ \/ Includes(p, <<"\\", "S", "y", "s", "t", "e", "m", "3", "2", "\\">>)
        \/ Includes(p, <<"\\", "S", "y", "s", "W", "O", "W", "6", "4", "\\">>)
        \/ Includes(p, <<"\\", "T", "e", "m", "p", "\\">>)
  \/ /\ platform = "macos"
     /\ \/ Includes(p, <<"/", "S", "y", "s", "t", "e", "m", "/">>)
        \/ Includes(p, <<"/", "L", "i", "b", "r", "a", "r", "y", "/">>)
        \/ Includes(p, <<"/", ".">>)
        \/ Includes(p, <<"/", "p", "r", "i", "v", "a", "t", "e", "/", "v", "a", "r", "/">>)

\* the platforms os.platform() tells apart
Platforms == {"windows", "macos", "linux"}

\* names of entries, in the casing given, in lower and in upper case, the
\* directories they lie in, and what may follow them in the path
ClassifierInputs ==
  LET EntryNames ==
        {<<"n", "o", "t", "e", "s", ".", "t", "x", "t">>,
         <<".", "p", "r", "o", "f", "i", "l", "e">>,
         <<"$", "t", "m", "p">>,
         <<"p", "a", "g", "e", "f", "i", "l", "e", ".", "s", "y", "s">>,
         <<"W", "i", "n", "d", "o", "w", "s">>,
         <<"P", "r", "o", "g", "r", "a", "m", " ", "F", "i", "l", "e", "s">>,
         <<"$", "R", "e", "c", "y", "c", "l", "e", ".", "B", "i", "n">>,
         <<"S", "y", "s", "t", "e", "m", " ", "V", "o", "l", "u", "m", "e", " ", "I", "n", "f", "o", "r", "m", "a", "t", "i", "o", "n">>,
         <<"R", "e", "c", "o", "v", "e", "r", "y">>,
         <<"r", "e", "b", "o", "o", "t", ".", "l", "o", "g">>,
         <<"p", "r", "o", "c">>,
         <<"L", "i", "b", "r", "a", "r", "y">>,
         <<"d", "a", "t", "a">>}
      CasedNames == EntryNames \cup {toLowerCase(n) : n \in EntryNames}
                      \cup {toUpperCase(n) : n \in EntryNames}
      Parents ==
        {<<>>,
         <<"C", ":", "\\">>,
         <<"C", ":", "\\", "U", "s", "e", "r", "s", "\\", "m", "e", "\\">>,
         <<"C", ":", "\\", "W", "i", "n", "d", "o", "w", "s", "\\", "S", "y", "s", "t", "e", "m", "3", "2", "\\">>,
         <<"/", "h", "o", "m", "e", "/", "m", "e", "/">>,
         <<"/">>}
      Tails ==
        {<<>>,
         <<"\\", "a", ".", "t", "x", "t">>,
         <<"/", "a", ".", "t", "x", "t">>,
         <<"\\">>}
  IN {[fn |-> "classify", platform |-> pf, path |-> d \o n \o t, showHidden |-> h] :
        pf \in Platforms, d \in Parents, n \in CasedNames, t \in Tails, h \in BOOLEAN}

ShouldSkipPath ==
  /\ arg.fn = "classify" /\ ret = NoRet
  /\ ret' = [fn |-> "shouldSkipPath", value |-> shouldSkipPath(arg.platform, arg.path)]
  /\ UNCHANGED <<service, arg>>

IsSystemPath ==
  /\ arg.fn = "classify" /\ ret = NoRet
  /\ ret' = [fn |-> "isSystemPath", value |-> isSystemPath(arg.platform, arg.path)]
  /\ UNCHANGED <<service, arg>>

(***************************************************************************)
(* Path normalization: normalizePath of utils/platform.ts, normalizePath   *)
(* of the Analysis page, and the path the HTTP controller and the          *)
(* WebSocket handler hand to diskService.analyzePath, which is the key of  *)
(* its cache lookup.                                                       *)
(***************************************************************************)
\* a normalizer that ends every Unix path with a separator
normalizePath_TrailingSeparator(platform, p) ==
  IF platform = "windows" THEN p
  ELSE IF p = <<"r", "o", "o", "t">> THEN <<"/">>
  ELSE p \o <<"/">>

\* normalizePath(path) of utils/platform.ts
normalizePath(platform, p) ==
  IF platform = "windows" THEN p
  ELSE IF p = <<"r", "o", "o", "t">> THEN <<"/">>
  ELSE p

\* normalizePath(pathParam) of the Analysis page
clientNormalizePath(pathParam) ==
  LET topLevelDirs ==
        {<<"W", "i", "n", "d", "o", "w", "s">>,
         <<"P", "r", "o", "g", "r", "a", "m", " ", "F", "i", "l", "e", "s">>,
         <<"P", "r", "o", "g", "r", "a", "m", " ", "F", "i", "l", "e", "s", " ", "(", "x", "8", "6", ")">>,
         <<"U", "s", "e", "r", "s">>,
         <<"P", "r", "o", "g", "r", "a", "m", "D", "a", "t", "a">>}
  IN IF pathParam = <<"r", "o", "o", "t">> THEN <<"C", ":">>
     ELSE IF ~Includes(pathParam, <<":">>) /\ ~StartsWith(pathParam, <<"/">>)
             /\ pathParam \in topLevelDirs
     THEN <<"C", ":", "\\">> \o pathParam
     ELSE pathParam

\* path.resolve(p) for a path without '..' and '.' segments: the separators
\* made native, a relative path appended to process.cwd(), an absolute one
\* of path.win32 put on its drive, trailing separators dropped
pathResolve(platform, p) ==
  LET Cwd == IF platform = "windows" THEN <<"C", ":", "\\", "a", "p", "p">> ELSE <<"/", "a", "p", "p">>
      NativeSeps ==
        [i \in 1..Len(p) |-> IF IsSep(platform, p[i]) /\ platform = "windows" THEN "\\" ELSE p[i]]
      native == NativeSeps
      full == IF native # <<>> /\ IsSep(platform, native[1])
              THEN IF platform = "windows" THEN <<"C", ":">> \o native ELSE native
              ELSE IF native = <<>> THEN Cwd
              ELSE Cwd \o (IF platform = "windows" THEN <<"\\">> ELSE <<"/">>)
                   \o native
      stripped == StripSeps(platform, full)
  IN IF stripped = <<>> THEN <<"/">>
     ELSE IF platform = "windows" /\ Len(stripped) = 2 THEN stripped \o <<"\\">>
     ELSE stripped

\* the analyzePath controller: formattedPath, decodeURIComponent applied
formattedPath(platform, decoded) ==
  LET lettered == IF Len(decoded) = 1 /\ LowerChar(decoded[1]) # UpperChar(decoded[1])
                  THEN decoded \o <<":">>
                  ELSE decoded
  IN IF ~Includes(lettered, <<":">>) THEN pathResolve(platform, lettered)
     ELSE lettered

\* the WebSocket handler: data.path as received
wsPath(received) == received

\* paths a client may ask for
NormalizerInputs ==
  LET RequestStrings ==
        {<<"r", "o", "o", "t">>,
         <<>>,
         <<"C">>,
         <<"c">>,
         <<"C", ":">>,
         <<"c", ":">>,
         <<"C", ":", "\\">>,
         <<"C", ":", "/">>,
         <<"D", ":">>,
         <<"W", "i", "n", "d", "o", "w", "s">>,
         <<"w", "i", "n", "d", "o", "w", "s">>,
         <<"U", "s", "e", "r", "s">>,
         <<"P", "r", "o", "g", "r", "a", "m", " ", "F", "i", "l", "e", "s">>,
         <<"C", ":", "\\", "U", "s", "e", "r", "s">>,
         <<"C", ":", "/", "U", "s", "e", "r", "s">>,
         <<"C", ":", "\\", "U", "s", "e", "r", "s", "\\">>,
         <<"d", "a", "t", "a">>,
         <<"d", "a", "t", "a", "/", "s", "u", "b">>,
         <<"/">>,
         <<"/", "h", "o", "m", "e", "/", "m", "e">>,
         <<"/", "h", "o", "m", "e", "/", "m", "e", "/">>,
         <<"r", "o", "o", "t", "r", "o", "o", "t">>}
  IN {[fn |-> "normalize", platform |-> pf, path |-> p] :
        pf \in Platforms, p \in RequestStrings}

NormalizePath ==
  /\ arg.fn = "normalize" /\ ret = NoRet
  /\ ret' = [fn |-> "normalizePath", raised |-> FALSE,
             value |-> normalizePath(arg.platform, arg.path)]
  /\ UNCHANGED <<service, arg>>

ClientNormalizePath ==
  /\ arg.fn = "normalize" /\ ret = NoRet
  /\ ret' = [fn |-> "clientNormalizePath", raised |-> FALSE,
             value |-> clientNormalizePath(arg.path)]
  /\ UNCHANGED <<service, arg>>

\* GET /api/analyze/:path up to the call of diskService.analyzePath; the
\* route matches a parameter that is not empty
HttpAnalyze ==
  /\ arg.fn = "normalize" /\ arg.path # <<>> /\ ret = NoRet
  /\ ret' = [fn |-> "httpAnalyze", raised |-> FALSE,
             value |-> formattedPath(arg.platform, arg.path)]
  /\ UNCHANGED <<service, arg>>

\* an 'analyze' message up to the call of diskService.analyzePath, made
\* when data.path is not empty
WsAnalyze ==
  /\ arg.fn = "normalize" /\ arg.path # <<>> /\ ret = NoRet
  /\ ret' = [fn |-> "wsAnalyze", raised |-> FALSE, value |-> wsPath(arg.path)]
  /\ UNCHANGED <<service, arg>>

(***************************************************************************)
(* The helpers alone: each is applied once to an input.                    *)
(***************************************************************************)
InitHelpers ==
  /\ Idle
  /\ arg \in ParserInputs \cup ClassifierInputs \cup NormalizerInputs
  /\ ret = NoRet

NextHelpers ==
  \/ ParseDrivesOutput
  \/ ShouldSkipPath
  \/ IsSystemPath
  \/ NormalizePath
  \/ ClientNormalizePath
  \/ HttpAnalyze
  \/ WsAnalyze

SpecHelpers == InitHelpers /\ [][NextHelpers]_vars

(***************************************************************************)
(* Properties of the scanner and of the cache.                             *)
(***************************************************************************)
\* C1: every directory node analyzePath returns, from a scan or from the
\* cache, has a size equal to the sum of the sizes of its children.
C1_DirectorySizeIsSumOfChildren ==
  (response.op = "analyze" /\ response.result.type = "directory") =>
    LET children == response.result.children
        total[i \in 0..Len(children)] ==
          IF i = 0 THEN 0 ELSE total[i - 1] + children[i].size
    IN response.result.size = total[Len(children)]

\* a drive scan has returned a directory and a large file under the root
C1_Witness ==
  /\ response.op = "analyze" /\ response.outcome = "scanned"
  /\ response.result.type = "directory"
  /\ \E i, j \in 1..Len(response.result.children) :
       /\ response.result.children[i].type = "directory"
       /\ response.result.children[j].type = "file"
       /\ response.result.children[i].size > 0

\* C2: the children of every directory node a scan returns are in
\* non-increasing order of size.
C2_ChildrenSortedDescending ==
  (response.op = "analyze" /\ response.outcome = "scanned") =>
    \A i, j \in 1..Len(response.result.children) :
      i < j => response.result.children[i].size >= response.result.children[j].size

\* C3: at any moment at most one walk is in flight for a given path.
C3_OneWalkPerPath ==
  \A c, d \in Slots :
    (/\ calls[c].op = "analyze" /\ calls[c].pc = "walk"
     /\ calls[d].op = "analyze" /\ calls[d].pc = "walk"
     /\ calls[c].path = calls[d].path) => c = d

\* C4: when deletePath(p) has succeeded, no ancestor of p, up to the drive
\* root, has an entry in the cache.
C4_DeleteInvalidatesAncestors ==
  (response.op = "delete" /\ response.outcome = "deleted") =>
    \A k \in 1..(Len(response.path) - 1) :
      ~HasEntry(diskCache, SubSeq(response.path, 1, k))

\* C5: when a scan of a path has returned, a non-forced analyzePath of the
\* same path is served from the cache.
C5_ScanIsCached ==
  (response.op = "analyze" /\ response.outcome = "scanned") =>
    ServesCachedDirs(response.path, FALSE)

\* C6: every step of a request that changes the in-memory cache hands the
\* whole cache to a write of disk-cache.json.
C6_MutationIsPersisted ==
  [][(diskCache' # diskCache /\ loading' = loading) =>
       JsonFile(diskCache') \in writes']_vars

\* C7: whatever disk-cache.json held at startup, no call fails on the shape
\* of the in-memory cache.
C7_NoCallFailsOnCacheShape == response.outcome # "throw"

\* C8: getMounts(false) called while the cached volume list is non-empty
\* returns that list with the cached timestamp, issues no platform command
\* and leaves the cache, disk-cache.json and the pending writes as they were.
C8_CachedListServed ==
  [][(/\ opsLeft' = opsLeft - 1
      /\ \/ response'.op = "getMounts" /\ ~response'.force
         \/ \E c \in Slots :
              /\ calls[c].op = "free"
              /\ calls'[c].op = "getMounts" /\ ~calls'[c].force
      /\ ~MountsThrow(diskCache)
      /\ Len(diskCache.mountPoints) > 0)
     =>
     (/\ response'.op = "getMounts"
      /\ response'.outcome # "throw"
      /\ response'.commands = 0
      /\ response'.mountPoints = diskCache.mountPoints
      /\ response'.lastUpdated = diskCache.lastUpdated
      /\ \A c \in Slots : calls'[c].op = "getMounts" => calls[c].op = "getMounts"
      /\ UNCHANGED <<diskCache, cacheFile, writes>>)]_vars

\* getMounts(false) has returned a cached list of two volumes
C8_Witness ==
  /\ response.op = "getMounts" /\ ~response.force
  /\ response.outcome = "cached"
  /\ Len(response.mountPoints) = 2
  /\ response.commands = 0

\* C9 as the specification states it: two consecutive getMounts(false) calls
\* issue the platform command at most once in total.
C9_AtMostOneCommand ==
  (/\ response.op = "getMounts" /\ response.consecutive
   /\ ~response.force /\ ~response.prev.force)
  => response.commands + response.prev.commands <= 1

\* C9: two consecutive getMounts(false) calls issue the platform command at
\* most once in total when a volume list is cached as the second one starts.
C9_AtMostOneCommandWhenListCached ==
  (/\ response.op = "getMounts" /\ response.consecutive
   /\ ~response.force /\ ~response.prev.force
   /\ response.hadList)
  => response.commands + response.prev.commands <= 1

\* the first call of a pair has issued the command, the second has not
C9_Witness ==
  /\ response.op = "getMounts" /\ response.consecutive
  /\ ~response.force /\ ~response.prev.force
  /\ response.hadList
  /\ response.prev.commands = 1
  /\ response.commands = 0

\* C10: getMounts never fails: a failed platform command yields the cached
\* list with its timestamp when one is cached, a non-empty fallback list
\* otherwise.
C10_GetMountsNeverFails ==
  response.op = "getMounts" =>
    /\ response.outcome # "throw"
    /\ response.outcome = "stale" =>
         /\ response.mountPoints = diskCache.mountPoints
         /\ response.lastUpdated = diskCache.lastUpdated
    /\ response.outcome = "fallback" => Len(response.mountPoints) > 0

\* C11: every volume record that parsing the output of the platform command
\* yields, that getMounts returns or that the cache lists has a total above 0.
C11_VolumesHavePositiveTotal ==
  /\ ~MountsThrow(diskCache) =>
       \A i \in 1..Len(diskCache.mountPoints) : diskCache.mountPoints[i].total > 0
  /\ response.op = "getMounts" =>
       \A i \in 1..Len(response.mountPoints) : response.mountPoints[i].total > 0
  /\ ret.fn = "parseDrivesOutput" =>
       \A i \in 1..Len(ret.value) :
         ~ret.value[i].total.nan /\ ret.value[i].total.val > 0

\* C12: a classifier returns true for every path that contains one of its
\* configured markers as a substring, whatever the casing of either.
C12_ReservedMarkerIsSkipped ==
  /\ ret.fn = "shouldSkipPath" =>
       ((\E i \in 1..Len(SYSTEM_PATHS) :
           Includes(toLowerCase(arg.path), toLowerCase(SYSTEM_PATHS[i])))
        => ret.value)
  /\ ret.fn = "isSystemPath" =>
       ((\E i \in 1..Len(getSystemDirs(arg.platform)) :
           Includes(toLowerCase(arg.path),
                    toLowerCase(getSystemDirs(arg.platform)[i])))
        => ret.value)

C14_HiddenSkippedIffNotShown ==
  LET lower == toLowerCase(arg.path)
      base == basename(arg.platform, arg.path)
      reserved ==
        \/ \E i \in 1..Len(SYSTEM_PATHS) : Includes(lower, toLowerCase(SYSTEM_PATHS[i]))
        \/ Includes(lower, <<"w", "i", "n", "d", "o", "w", "s">>)
        \/ Includes(lower, <<"p", "r", "o", "g", "r", "a", "m", " ", "f", "i", "l", "e", "s">>)
      hidden == base # <<>> /\ base[1] \in {".", "$"}
  IN (ret.fn = "shouldSkipPath" /\ ~reserved /\ hidden)
     => (ret.value <=> ~arg.showHidden)

\* C15: when the path analyzePath was asked for cannot be read, the node
\* returned has size 0 and no children and differs from the node a scan of
\* an empty directory at that path returns.
C15_RootUnreadableIsExplicit ==
  (response.op = "analyze" /\ response.outcome \in {"unreadable", "rootError"}) =>
    LET name == response.path[Len(response.path)]
        emptyScan ==
          IF IsDrive(response.path)
          THEN RootResult(response.path,
                 RootSortedChildren(Dir(name, <<>>),
                                    PathChars(response.path) \o <<"\\">>))
          ELSE PathResult(response.path, Dir(name, <<>>))
    IN /\ response.result.size = 0
       /\ response.result.children = <<>>
       /\ response.result # emptyScan

\* C16: a directory listed in the result of the scan of a directory is marked
\* as an estimate unless its size is what the measurement yields without a
\* depth budget (8 levels are more than any tree of the model has).
C16_DepthCutIsMarkedEstimate ==
  (response.op = "analyze" /\ response.outcome = "scanned"
   /\ ~IsDrive(response.path)) =>
    \A i \in 1..Len(response.result.children) :
      LET child == response.result.children[i]
          node == Resolve(fs, response.path \o <<child.name>>)
      IN child.type = "directory" =>
           \/ "estimate" \in DOMAIN child
           \/ child.size = calculateDirectorySize(node, 8)

\* C17: normalizePath, on the server and in the client, returns for every
\* string without raising, and applied to its result returns the result.
C17_NormalizeIdempotentAndTotal ==
  /\ ret.fn = "normalizePath" =>
       /\ ~ret.raised
       /\ normalizePath(arg.platform, ret.value) = ret.value
  /\ ret.fn = "clientNormalizePath" =>
       /\ ~ret.raised
       /\ clientNormalizePath(ret.value) = ret.value

\* the root token has been normalized to the root of a Unix host
C17_Witness ==
  /\ ret.fn = "normalizePath" /\ arg.path = <<"r", "o", "o", "t">> /\ ret.value = <<"/">>

\* C18: the path handed to diskService.analyzePath, under which it looks up
\* and stores its cache entry, is the normalized form of the path requested,
\* the same over HTTP and over the WebSocket.
C18_CacheKeyIsCanonical ==
  ret.fn \in {"httpAnalyze", "wsAnalyze"} =>
    /\ ret.value = normalizePath(arg.platform, arg.path)
    /\ ret.value = formattedPath(arg.platform, arg.path)
    /\ ret.value = wsPath(arg.path)

\* C19: deletePath always returns: when stat or the removal failed the answer
\* is a failure whose message is the one of the error's class (permission
\* for EACCES and EPERM, busy for EBUSY, not found for ENOENT, the generic
\* one for anything else), and the step that removes ends the call, so that
\* no removal is made twice.
C19_DeleteNeverRaises ==
  [][/\ response'.op = "delete" =>
          /\ response'.outcome \in {"deleted", "failed"}
          /\ response'.outcome = "failed" <=> response'.code # ""
          /\ response'.code \in {"EACCES", "EPERM"} =>
               response'.message = "Permission denied"
          /\ response'.code = "EBUSY" =>
               response'.message = "In use by another process"
          /\ response'.code = "ENOENT" =>
               response'.message = "File or directory not found"
          /\ response'.code \notin {"", "EACCES", "EPERM", "EBUSY", "ENOENT"} =>
               response'.message = "Failed to delete path"
     /\ \A c \in Slots :
          (calls[c].op = "delete" /\ calls'[c] # calls[c]) =>
            /\ calls'[c] = FreeCall
            /\ response'.op = "delete"
     /\ fs' # fs =>
          \E c \in Slots :
            /\ calls[c].op = "delete" /\ calls'[c] = FreeCall
            /\ response'.path = calls[c].path]_vars

\* a removal that found the directory busy has been answered
C19_Witness ==
  /\ response.op = "delete" /\ response.outcome = "failed"
  /\ response.code = "EBUSY" /\ response.path = <<"C:", "data">>

\* C20: when analyzePath(p) or deletePath(p) has failed, the cache holds no
\* entry for p or for a directory above p, so that the next analyzePath that
\* is not forced is not served from an entry made before the failure.
C20_FailureInvalidatesCache ==
  (\/ response.op = "delete" /\ response.outcome = "failed"
   \/ response.op = "analyze"
        /\ response.outcome \in {"rootError", "unreadable", "throw"}) =>
    \A k \in 1..Len(response.path) :
      ~HasEntry(diskCache, SubSeq(response.path, 1, k))

\* C21: in the tree a scan returns, an entry that shouldSkipPath skips is
\* unmeasured: it adds nothing to the size of the directory scanned.
C21_SkippedEntriesUnmeasured ==
  (response.op = "analyze" /\ response.outcome = "scanned") =>
    \A i \in 1..Len(response.result.children) :
      LET child == response.result.children[i]
          node == Resolve(fs, response.path \o <<child.name>>)
      IN (node.kind # "none"
          /\ shouldSkipPath("windows", PathChars(response.path \o <<child.name>>)))
           => child.size = 0

\* C22: in the tree a scan returns, a child that cannot be stat'ed or listed
\* has size 0 or is left out, and every file beside it is there with its size.
C22_UnreadableChildCountsZero ==
  (response.op = "analyze" /\ response.outcome = "scanned"
   /\ ~IsDrive(response.path)) =>
    LET node == Resolve(fs, response.path)
        children == response.result.children
    IN /\ \A i \in 1..Len(children) :
            LET e == Child(node, children[i].name)
            IN (e.kind = "dir" /\ (~StatOk(e) \/ ~ReaddirOk(e)))
                 => children[i].size = 0
       /\ \A j \in 1..Len(node.children) :
            LET e == node.children[j]
            IN (e.kind = "file" /\ StatOk(e)) =>
                 \E i \in 1..Len(children) :
                   children[i].name = e.name /\ children[i].size = e.size

\* C23: the walk of a drive root depends on nothing that lies deeper than
\* the directories three levels below the root and the files in them: what
\* it finds is what it finds on the volume with every directory of the
\* fourth level emptied.
C23_RootScanIsShallow ==
  [][\A c \in Slots :
       (calls[c].op = "analyze" /\ calls[c].pc = "walk"
        /\ calls'[c].pc = "store") =>
         LET RECURSIVE Cut(_, _)
             Cut(n, levels) ==
               IF n.kind # "dir" THEN n
               ELSE IF levels = 0 THEN [n EXCEPT !.children = <<>>]
               ELSE [n EXCEPT !.children =
                       [i \in 1..Len(@) |-> Cut(@[i], levels - 1)]]
         IN calls'[c].sorted =
              RootSortedChildren(Cut(Resolve(fs, calls[c].path), 4),
                                 PathChars(calls[c].path) \o <<"\\">>)]_vars

\* a drive holding a file five levels below its root has been walked
C23_Witness ==
  \E c \in Slots :
    /\ calls[c].op = "analyze" /\ calls[c].pc = "store"
    /\ Resolve(fs, <<"C:", "data", "sub", "deep", "deeper", "a.txt">>).kind = "file"
    /\ \E i \in 1..Len(calls[c].sorted) :
         calls[c].sorted[i].name = "data" /\ calls[c].sorted[i].size > 0

\* C24: a scan does not descend into a symbolic link to a directory above
\* it: the link C:\data\loop to C:\data adds nothing to what a scan of
\* C:\data reports.
C24_LinkToAncestorNotDescended ==
  (response.op = "analyze" /\ response.outcome = "scanned"
   /\ response.path = <<"C:", "data">>) =>
    \A i \in 1..Len(response.result.children) :
      response.result.children[i].name = "loop" =>
        response.result.children[i].size = 0

\* C25: when the scan of a drive has returned and the next step is a call
\* for the same drive that is served from the cache, the cached answer is
\* the tree the scan returned: the same name, size and children.
C25_CachedTreeEqualsScannedTree ==
  [][(/\ response.op = "analyze" /\ response.outcome = "scanned"
      /\ IsDrive(response.path)
      /\ response'.op = "analyze" /\ response'.outcome = "cached"
      /\ response'.path = response.path) =>
        response'.result = response.result]_vars

\* C26: the lastUpdated a call served from the cache returns for a drive is
\* the time the drive's entry was computed: a step that is not the end of a
\* scan of that drive and leaves its entry as it was, such as a listing of the
\* volumes, leaves that time as it was.
C26_LastUpdatedIsPerEntry ==
  [][(/\ loading' = loading
      /\ ~DirsThrow(diskCache) /\ ~DirsThrow(diskCache')
      /\ HasEntry(diskCache, DrivePath) /\ HasEntry(diskCache', DrivePath)
      /\ ~(response'.op = "analyze" /\ response'.outcome = "scanned")) =>
        diskCache'.lastUpdated = diskCache.lastUpdated]_vars

\* C27: the write of an earlier mutation never replaces on disk the write of
\* a later one: once disk-cache.json holds the cache that is in memory, stored
\* by this run (after time 0, the time of a file found at startup), a step
\* that leaves the cache in memory as it is leaves the file as it is.
C27_StaleWriteNeverOverwrites ==
  [][(/\ ~loading
      /\ diskCache.lastUpdated > 0
      /\ cacheFile = JsonFile(diskCache)
      /\ diskCache' = diskCache) =>
        cacheFile' = cacheFile]_vars

\* C28: the startup load discards nothing a request has stored: the entries
\* and the volume list that are in the cache when loadCacheFromFile ends are
\* in it afterwards.
C28_LoadKeepsMutations ==
  [][(loading /\ ~loading') =>
       /\ \A k \in DOMAIN diskCache.largeDirectories :
            /\ HasEntry(diskCache', k)
            /\ diskCache'.largeDirectories[k] = diskCache.largeDirectories[k]
       /\ diskCache.mountPoints # <<>> =>
            diskCache'.mountPoints = diskCache.mountPoints]_vars

\* C29: when deletePath of a drive has just succeeded and removed the
\* drive's entry from the cache (the cache without it is being saved), the
\* next step of a request, which can only belong to a call started before
\* the deletion, does not put an entry for the drive into the cache.
C29_ScanDoesNotReinsertDeleted ==
  [][(/\ response.op = "delete" /\ response.outcome = "deleted"
      /\ IsDrive(response.path)
      /\ JsonFile(diskCache) \in writes
      /\ ~HasEntry(diskCache, response.path)
      /\ loading' = loading) =>
        ~HasEntry(diskCache', response.path)]_vars

\* C30: over the WebSocket a deletePath that failed is answered with 'error'
\* and one that succeeded with 'deleted'.
C30_DeletedOnlyAfterSuccess ==
  response.op = "delete" =>
    /\ response.outcome = "failed" => wsDeleteReply(response) = "error"
    /\ wsDeleteReply(response) = "deleted" => response.outcome = "deleted"

====
